---------------------------- MODULE Spec2Model ----------------------------
(***************************************************************************)
(* ParkSphere API (src/parksphere/server/main.py): the read-only catalog   *)
(* service over the SQLite tables parks and images.                        *)
(*                                                                         *)
(* Text values are sequences of one-character strings, so that ORDER BY    *)
(* (byte-wise comparison), LIKE (wildcards, ASCII case folding) and the    *)
(* length test of search_parks are computed, not assumed.  An Optional     *)
(* value is a sequence of length at most one: None is << >>, a present     *)
(* value x is <<x>>.                                                       *)
(***************************************************************************)
EXTENDS Integers, Sequences, FiniteSets, TLC

(* ------------------------------ bounds -------------------------------- *)

\* number of park ids that may hold a row in the parks table
MaxParks == 2
\* number of image ids that may hold a row in the images table
MaxImages == 3
\* number of requests that may be in flight at once
MaxClients == 2

ParkIds == 1..MaxParks
ImageIds == 1..MaxImages
Clients == 1..MaxClients

(* ------------------------------ values -------------------------------- *)

None == << >>
Some(x) == <<x>>

\* the byte value of a character, which SQLite's default BINARY collation
\* compares in ORDER BY
Ord(c) ==
  CASE c = "%" -> 37
    [] c = "A" -> 65
    [] c = "_" -> 95
    [] c = "a" -> 97
    [] c = "b" -> 98
    [] c = "c" -> 99

\* the ASCII case folding of SQLite's LIKE
Lower(c) == IF c = "A" THEN "a" ELSE c

RECURSIVE StrLess(_, _)
StrLess(s, t) ==
  IF t = << >> THEN FALSE
  ELSE IF s = << >> THEN TRUE
  ELSE IF Ord(Head(s)) # Ord(Head(t)) THEN Ord(Head(s)) < Ord(Head(t))
  ELSE StrLess(Tail(s), Tail(t))

StrLeq(s, t) == s = t \/ StrLess(s, t)

\* t occurs in s as a literal substring, compared case-insensitively
ContainsIgnoreCase(s, t) ==
  \E i \in 0..(Len(s) - Len(t)) :
    \A k \in 1..Len(t) : Lower(s[i + k]) = Lower(t[k])

\* SQLite's LIKE without an ESCAPE clause: % matches any run of characters,
\* _ matches exactly one character, anything else matches itself up to
\* ASCII case
RECURSIVE Like(_, _)
Like(text, pattern) ==
  IF pattern = << >> THEN text = << >>
  ELSE IF Head(pattern) = "%"
    THEN Like(text, Tail(pattern)) \/ (text # << >> /\ Like(Tail(text), pattern))
  ELSE IF text = << >> THEN FALSE
  ELSE IF Head(pattern) = "_" THEN Like(Tail(text), Tail(pattern))
  ELSE Lower(Head(text)) = Lower(Head(pattern)) /\ Like(Tail(text), Tail(pattern))

\* the sequences that list every element of the set S exactly once
Listings(S) ==
  {s \in [1..Cardinality(S) -> S] : \A i, j \in 1..Cardinality(S) : s[i] = s[j] => i = j}


(* --------------------------- the two tables --------------------------- *)

\* a row of parks: id is the primary key; activities is NULL (None) or text
ParkRow(i, f) ==
  [id |-> i, name |-> f.name, summary |-> f.summary, biome |-> f.biome,
   activities |-> f.activities]

\* a row of images: id is the primary key and the ordering key
ImageRow(i, g) ==
  [id |-> i, park_id |-> g.park_id, type |-> g.type,
   url |-> <<"url", i>>, blur_hash |-> <<"blur", i>>]

\* every parks table whose rows take their columns from F, at most one row
\* per id
ParkTables(F) ==
  UNION {{{ParkRow(i, f[i]) : i \in S} : f \in [S -> F]} : S \in SUBSET ParkIds}

\* every images table whose rows take their columns from G
ImageTables(G) ==
  UNION {{{ImageRow(i, g[i]) : i \in S} : g \in [S -> G]} : S \in SUBSET ImageIds}

ImageTypes == {"photo", "satellite"}

\* stored activities texts: valid lists, the JSON literal null, a JSON
\* string, a JSON object, and text that is not JSON
HikingCamping == "[\"hiking\",\"camping\"]"
CampingHiking == "[\"camping\",\"hiking\"]"
ActivityTexts ==
  {"", "[]", HikingCamping, CampingHiking, "null", "\"hiking\"", "{\"hiking\":1}",
   "[\"hiking\","}

VARIABLES
  parks,     \* the parks table (read-only)
  images,    \* the images table (read-only)
  open,      \* the handles of the connections that are open
  pc,        \* per request: idle, connect, query, assemble, exit, done
  call,      \* per request: the endpoint and its arguments
  conn,      \* per request: the handle of its connection, 0 before connect
  rows,      \* per request: the fetched park rows not yet assembled
  acc,       \* per request: the local list parks of the handler
  resp,      \* per request: the response or the raised error
  nqueries   \* per request: the statements it has executed

vars == <<parks, images, open, pc, call, conn, rows, acc, resp, nqueries>>

(* --------------------------- SQL statements --------------------------- *)

SortedByName(s) == \A i, j \in 1..Len(s) : i < j => StrLeq(s[i].name, s[j].name)

SortedById(s) == \A i, j \in 1..Len(s) : i < j => s[i].id < s[j].id

\* faulty variant: a SELECT without ORDER BY: the rows in any order
OrderByNothing(T) == Listings(T)

\* the results a SELECT ... ORDER BY name over the rows T may deliver: rows
\* of equal name come in an order the statement does not fix
OrderByName(T) == {s \in Listings(T) : SortedByName(s)}

\* SELECT ... ORDER BY id: ids are unique, the result is one sequence
OrderById(T) == CHOOSE s \in Listings(T) : SortedById(s)

\* SELECT * FROM parks ORDER BY name
SelectAllParks == OrderByName(parks)

\* SELECT * FROM parks WHERE biome = ? ORDER BY name
SelectParksByBiome(biome) == OrderByName({p \in parks : p.biome = biome})

\* faulty variant: the statement without its WHERE clause
SelectParkByIdNoWhere(park_id) == parks

\* SELECT * FROM parks WHERE id = ?
SelectParkById(park_id) == {p \in parks : p.id = park_id}

\* SELECT DISTINCT biome FROM parks ORDER BY biome
SelectDistinctBiomes ==
  LET B == {p.biome : p \in parks}
  IN CHOOSE s \in Listings(B) : \A i, j \in 1..Len(s) : i < j => StrLess(s[i], s[j])

\* the parameter f"%{q}%" bound to both LIKE operands
LikePattern(q) == <<"%">> \o q \o <<"%">>

\* SELECT * FROM parks WHERE name LIKE ? OR summary LIKE ? ORDER BY name
SelectParksLike(q) ==
  OrderByName({p \in parks :
    Like(p.name, LikePattern(q)) \/ Like(p.summary, LikePattern(q))})

\* faulty variant: the statement without its test of type
SelectImagesAnyType(park_id, image_type) ==
  OrderById({i \in images : i.park_id = park_id})

\* SELECT * FROM images WHERE park_id = ? AND type = ? ORDER BY id
SelectImages(park_id, image_type) ==
  OrderById({i \in images : i.park_id = park_id /\ i.type = image_type})

\* SELECT url FROM images WHERE park_id = ? AND type = 'satellite' LIMIT 1,
\* then fetchone(): without ORDER BY any satellite row may come first
SelectSatellite(park_id) ==
  LET S == {i \in images : i.park_id = park_id /\ i.type = "satellite"}
  IN IF S = {} THEN {None} ELSE {Some(i) : i \in S}

(* ------------------------------ assembly ------------------------------ *)

GalleryImage(img) == [url |-> img.url, blur |-> img.blur_hash]

get_park_images(park_id, image_type) ==
  LET imgs == SelectImages(park_id, image_type)
  IN [k \in 1..Len(imgs) |-> GalleryImage(imgs[k])]

\* json.loads on the stored texts: the decoded value, or a JSONDecodeError
JsonLoads(text) ==
  CASE text = "[]" -> [kind |-> "list", items |-> << >>]
    [] text = HikingCamping -> [kind |-> "list", items |-> <<"hiking", "camping">>]
    [] text = CampingHiking -> [kind |-> "list", items |-> <<"camping", "hiking">>]
    [] text = "null" -> [kind |-> "null", items |-> << >>]
    [] text = "\"hiking\"" -> [kind |-> "str", items |-> << >>]
    [] text = "{\"hiking\":1}" -> [kind |-> "object", items |-> << >>]
    [] OTHER -> [kind |-> "JSONDecodeError", items |-> << >>]

\* the truth value Python gives the column: None and "" are false
Truthy(column) == column # None /\ column[1] # ""

\* activities = json.loads(row['activities']) if row['activities'] else []
ParseActivities(column) ==
  IF Truthy(column) THEN JsonLoads(column[1]) ELSE [kind |-> "list", items |-> << >>]

\* the field activities: Optional[List[str]] of Park accepts a list of
\* strings and None; anything else is a ValidationError
ValidActivities(decoded) == decoded.kind \in {"list", "null"}

ActivitiesField(decoded) == IF decoded.kind = "list" THEN Some(decoded.items) ELSE None

\* get_park_from_row with satellite_row the row fetchone() delivered: the
\* Park, or raised when json.loads or the Park constructor raises
get_park_from_row(row, satellite_row) ==
  LET gallery == get_park_images(row.id, "photo")
      satellite_url == IF satellite_row # None THEN Some(satellite_row[1].url) ELSE None
      activities == ParseActivities(row.activities)
  IN IF ValidActivities(activities)
     THEN [raised |-> FALSE,
           park |-> Some([id |-> row.id, name |-> row.name, biome |-> row.biome,
                          summary |-> row.summary, gallery |-> gallery,
                          satellite |-> satellite_url,
                          activities |-> ActivitiesField(activities)])]
     ELSE [raised |-> TRUE, park |-> None]

(* ------------------------------ requests ------------------------------ *)

NoCall == [op |-> "none", biome |-> None, park_id |-> 0, q |-> << >>]

\* a response: status 0 while none is set; parks holds the field parks of a
\* ParksList, the field results of a search, or the one Park of get_park
NoResp ==
  [status |-> 0, parks |-> << >>, total |-> 0, query |-> None, biomes |-> << >>]

\* HTTPException(status_code=...), or an exception FastAPI turns into a 500
Error(status) == [NoResp EXCEPT !.status = status]

Begin(r, c) ==
  /\ pc[r] = "idle"
  /\ call' = [call EXCEPT ![r] = c]
  /\ pc' = [pc EXCEPT ![r] = "connect"]
  /\ UNCHANGED <<parks, images, open, conn, rows, acc, resp, nqueries>>

\* GET /api/parks with the query parameter biome given (Some) or not (None)
CallGetParks(r, biome) == Begin(r, [NoCall EXCEPT !.op = "get_parks", !.biome = biome])

\* GET /api/parks/biome/{biome}: return await get_parks(biome=biome)
CallGetParksByBiome(r, biome) ==
  Begin(r, [NoCall EXCEPT !.op = "get_parks_by_biome", !.biome = Some(biome)])

\* GET /api/parks/{park_id}
CallGetPark(r, park_id) == Begin(r, [NoCall EXCEPT !.op = "get_park", !.park_id = park_id])

\* GET /api/biomes
CallGetBiomes(r) == Begin(r, [NoCall EXCEPT !.op = "get_biomes"])

\* faulty variant: only the empty string is rejected
QueryEmpty(q) == q = << >>

\* if not q or len(q) < 2
QueryTooShort(q) == q = << >> \/ Len(q) < 2

\* GET /api/search: the length test comes before get_db()
CallSearch(r, q) ==
  /\ pc[r] = "idle"
  /\ call' = [call EXCEPT ![r] = [NoCall EXCEPT !.op = "search_parks", !.q = q]]
  /\ IF QueryTooShort(q)
     THEN /\ resp' = [resp EXCEPT ![r] = Error(400)]
          /\ pc' = [pc EXCEPT ![r] = "done"]
     ELSE /\ pc' = [pc EXCEPT ![r] = "connect"]
          /\ UNCHANGED resp
  /\ UNCHANGED <<parks, images, open, conn, rows, acc, nqueries>>

\* aiosqlite.connect() makes a new connection on every call
NewHandle == CHOOSE h \in 1..(Cardinality(open) + 1) : h \notin open

\* async with get_db() as db: entering opens the request's connection
Connect(r) ==
  /\ pc[r] = "connect"
  /\ conn' = [conn EXCEPT ![r] = NewHandle]
  /\ open' = open \cup {NewHandle}
  /\ pc' = [pc EXCEPT ![r] = "query"]
  /\ UNCHANGED <<parks, images, call, rows, acc, resp, nqueries>>

Fetched(r, result) ==
  /\ rows' = [rows EXCEPT ![r] = result]
  /\ nqueries' = [nqueries EXCEPT ![r] = @ + 1]
  /\ pc' = [pc EXCEPT ![r] = "assemble"]
  /\ UNCHANGED <<parks, images, open, call, conn, acc, resp>>

\* the statement a handler raised in: the error is on its way out of the
\* async with block
Raise(r, status) ==
  /\ resp' = [resp EXCEPT ![r] = Error(status)]
  /\ pc' = [pc EXCEPT ![r] = "exit"]

\* get_parks: if biome: ... WHERE biome = ? ... else: all parks; fetchall()
QueryParks(r) ==
  /\ pc[r] = "query"
  /\ call[r].op \in {"get_parks", "get_parks_by_biome"}
  /\ LET biome == call[r].biome
     IN IF biome # None /\ biome[1] # << >>
        THEN \E result \in SelectParksByBiome(biome[1]) : Fetched(r, result)
        ELSE \E result \in SelectAllParks : Fetched(r, result)

\* get_park: fetchone(); if not row: raise HTTPException(404)
QueryPark(r) ==
  /\ pc[r] = "query"
  /\ call[r].op = "get_park"
  /\ LET found == SelectParkById(call[r].park_id)
     IN IF found = {}
        THEN /\ Raise(r, 404)
             /\ nqueries' = [nqueries EXCEPT ![r] = @ + 1]
             /\ UNCHANGED <<parks, images, open, call, conn, rows, acc>>
        ELSE \E row \in found : Fetched(r, <<row>>)

\* get_biomes: the response is built from the fetched rows at once
QueryBiomes(r) ==
  /\ pc[r] = "query"
  /\ call[r].op = "get_biomes"
  /\ resp' = [resp EXCEPT ![r] = [NoResp EXCEPT !.status = 200, !.biomes = SelectDistinctBiomes]]
  /\ nqueries' = [nqueries EXCEPT ![r] = @ + 1]
  /\ pc' = [pc EXCEPT ![r] = "exit"]
  /\ UNCHANGED <<parks, images, open, call, conn, rows, acc>>

\* search_parks: the LIKE statement; fetchall()
QuerySearch(r) ==
  /\ pc[r] = "query"
  /\ call[r].op = "search_parks"
  /\ \E result \in SelectParksLike(call[r].q) : Fetched(r, result)

\* db.execute or a fetch raises (the database is locked, missing or damaged)
QueryFails(r) ==
  /\ pc[r] \in {"query", "assemble"}
  /\ pc[r] = "assemble" => rows[r] # << >>
  /\ Raise(r, 500)
  /\ UNCHANGED <<parks, images, open, call, conn, rows, acc, nqueries>>

\* faulty variant: the loop with the call wrapped in try/except: continue
AssembleSkipping(r) ==
  /\ pc[r] = "assemble"
  /\ rows[r] # << >>
  /\ \E satellite_row \in SelectSatellite(Head(rows[r]).id) :
       LET got == get_park_from_row(Head(rows[r]), satellite_row)
       IN acc' = [acc EXCEPT ![r] = IF got.raised THEN @ ELSE Append(@, got.park[1])]
  /\ rows' = [rows EXCEPT ![r] = Tail(@)]
  /\ nqueries' = [nqueries EXCEPT ![r] = @ + 2]
  /\ UNCHANGED <<parks, images, open, call, conn, pc, resp>>

\* one turn of: for row in rows: park = await get_park_from_row(db, row);
\* parks.append(park) (get_park: the one call of get_park_from_row)
Assemble(r) ==
  /\ pc[r] = "assemble"
  /\ rows[r] # << >>
  /\ \E satellite_row \in SelectSatellite(Head(rows[r]).id) :
       LET got == get_park_from_row(Head(rows[r]), satellite_row)
       IN IF got.raised
          THEN /\ Raise(r, 500)
               /\ UNCHANGED <<rows, acc>>
          ELSE /\ acc' = [acc EXCEPT ![r] = Append(@, got.park[1])]
               /\ rows' = [rows EXCEPT ![r] = Tail(@)]
               /\ UNCHANGED <<pc, resp>>
  /\ nqueries' = [nqueries EXCEPT ![r] = @ + 2]
  /\ UNCHANGED <<parks, images, open, call, conn>>

\* the value the handler returns once every row is assembled
Returned(r) ==
  IF call[r].op = "search_parks"
  THEN [NoResp EXCEPT !.status = 200, !.parks = acc[r], !.query = Some(call[r].q),
                      !.total = Len(acc[r])]
  ELSE [NoResp EXCEPT !.status = 200, !.parks = acc[r], !.total = Len(acc[r])]

\* return ParksList(parks=parks, total=len(parks)); return {"results": ...};
\* return await get_park_from_row(db, row)
Return(r) ==
  /\ pc[r] = "assemble"
  /\ rows[r] = << >>
  /\ resp' = [resp EXCEPT ![r] = Returned(r)]
  /\ pc' = [pc EXCEPT ![r] = "exit"]
  /\ UNCHANGED <<parks, images, open, call, conn, rows, acc, nqueries>>

\* faulty variant: db.close() as the last statement of the block instead of
\* async with: an exception skips it
ExitClosingOnReturn(r) ==
  /\ pc[r] = "exit"
  /\ open' = IF resp[r].status = 200 THEN open \ {conn[r]} ELSE open
  /\ pc' = [pc EXCEPT ![r] = "done"]
  /\ UNCHANGED <<parks, images, call, conn, rows, acc, resp, nqueries>>

\* leaving async with, by return or by exception: the connection is closed
Exit(r) ==
  /\ pc[r] = "exit"
  /\ open' = open \ {conn[r]}
  /\ pc' = [pc EXCEPT ![r] = "done"]
  /\ UNCHANGED <<parks, images, call, conn, rows, acc, resp, nqueries>>

\* the response is sent and the handler's frame is gone
Finish(r) ==
  /\ pc[r] = "done"
  /\ pc' = [pc EXCEPT ![r] = "idle"]
  /\ call' = [call EXCEPT ![r] = NoCall]
  /\ conn' = [conn EXCEPT ![r] = 0]
  /\ rows' = [rows EXCEPT ![r] = << >>]
  /\ acc' = [acc EXCEPT ![r] = << >>]
  /\ resp' = [resp EXCEPT ![r] = NoResp]
  /\ nqueries' = [nqueries EXCEPT ![r] = 0]
  /\ UNCHANGED <<parks, images, open>>

(* --------------------------- specifications --------------------------- *)

\* stored texts: "Ab" < "ab" < "ba" in byte order; "Ab" and "ab" are equal
\* up to case
Names == {<<"A", "b">>, <<"a", "b">>, <<"b", "a">>}
Summaries == {<< >>, <<"b", "A", "c">>, <<"a", "%">>}
Biomes == {<< >>, <<"a">>, <<"b">>}

\* search strings: too short, plain, with LIKE's wildcard characters, absent
Queries ==
  {<< >>, <<"a">>, <<"_">>, <<"a", "b">>, <<"A", "B">>, <<"a", "_">>, <<"%", "%">>,
   <<"a", "%">>, <<"c", "c">>, <<"b", "a", "c">>}

DefaultFields ==
  [name |-> <<"a", "b">>, summary |-> <<"b", "A", "c">>, biome |-> <<"a">>,
   activities |-> Some(HikingCamping)]

Fields(N, S, B, A) == [name : N, summary : S, biome : B, activities : A]

Start(P, I) ==
  /\ parks \in P
  /\ images \in I
  /\ open = {}
  /\ pc = [r \in Clients |-> "idle"]
  /\ call = [r \in Clients |-> NoCall]
  /\ conn = [r \in Clients |-> 0]
  /\ rows = [r \in Clients |-> << >>]
  /\ acc = [r \in Clients |-> << >>]
  /\ resp = [r \in Clients |-> NoResp]
  /\ nqueries = [r \in Clients |-> 0]

\* the steps of the handlers once a request is in
Handle(r) ==
  \/ Connect(r)
  \/ QueryParks(r)
  \/ QueryPark(r)
  \/ QueryBiomes(r)
  \/ QuerySearch(r)
  \/ Assemble(r)
  \/ Return(r)
  \/ Exit(r)
  \/ Finish(r)

\* the requests of client r, their arguments drawn from B (biome query
\* parameter), P (biome path parameter), I (park ids) and Q (search strings)
Request(r, B, P, I, Q) ==
  \/ \E biome \in B : CallGetParks(r, biome)
  \/ \E biome \in P : CallGetParksByBiome(r, biome)
  \/ \E park_id \in I : CallGetPark(r, park_id)
  \/ CallGetBiomes(r)
  \/ \E q \in Q : CallSearch(r, q)

\* a park id that no table holds
AbsentId == MaxParks + 1

(* The catalog: one request at a time over every parks table of names and *)
(* biomes.                                                                 *)
OneImage == {ImageRow(1, [park_id |-> 1, type |-> "photo"])}

Init ==
  Start(ParkTables(Fields(Names, {<< >>}, Biomes, {None})), {OneImage})

Next ==
  \/ Request(1, {None} \cup {Some(b) : b \in Biomes}, Biomes \cup {<<"c">>},
             ParkIds \cup {AbsentId}, {<<"a">>, <<"a", "b">>})
  \/ Handle(1)

Spec == Init /\ [][Next]_vars

(* Images: one request at a time over every images table.                  *)
InitImages ==
  Start(ParkTables({DefaultFields}),
        ImageTables([park_id : {1, 2}, type : ImageTypes]))

NextImages ==
  \/ Request(1, {None}, {<<"a">>}, {1, 2}, {<<"a">>, <<"a", "b">>})
  \/ Handle(1)

SpecImages == InitImages /\ [][NextImages]_vars

(* Activities: one request at a time over every stored activities value.   *)
InitActivities ==
  Start(ParkTables(Fields({<<"a", "b">>}, {<< >>}, {<<"a">>},
                          {None} \cup {Some(t) : t \in ActivityTexts})),
        {OneImage})

NextActivities ==
  \/ Request(1, {None, Some(<<"a">>)}, {<<"a">>}, ParkIds \cup {AbsentId},
             {<<"a">>, <<"a", "b">>})
  \/ Handle(1)

SpecActivities == InitActivities /\ [][NextActivities]_vars

(* Search: one request at a time over every table of names and summaries.  *)
InitSearch ==
  Start(ParkTables(Fields(Names, Summaries, {<<"a">>}, {None})), {OneImage})

NextSearch ==
  \/ Request(1, {None}, {<<"a">>}, {1}, Queries)
  \/ Handle(1)

SpecSearch == InitSearch /\ [][NextSearch]_vars

(* Connections: concurrent requests over a table with a park whose         *)
(* activities text is malformed, and a database that may fail.             *)
GoodAndBad ==
  {ParkRow(1, DefaultFields),
   ParkRow(2, [DefaultFields EXCEPT !.name = <<"b", "a">>,
                                    !.activities = Some("[\"hiking\",")])}

InitConc == Start({GoodAndBad}, {OneImage})

NextConc ==
  \E r \in Clients :
    \/ Request(r, {None}, {<<"a">>}, {1, AbsentId}, {<<"a">>, <<"a", "b">>})
    \/ Handle(r)
    \/ QueryFails(r)

SpecConc == InitConc /\ [][NextConc]_vars

(* ------------------------------- claims ------------------------------- *)

Done(r) == pc[r] = "done"
Ok(r) == pc[r] = "done" /\ resp[r].status = 200
Listing(r) == call[r].op \in {"get_parks", "get_parks_by_biome"}
Ids(s) == {s[k].id : k \in 1..Len(s)}

\* C1: get_park(id) answers 200 with the one Park whose id is the queried id
\* only when a row with that id exists, and that row answers 200 whenever
\* its activities are NULL; it answers 404 exactly when no row has the id.
GetParkContract ==
  \A r \in Clients :
    (Done(r) /\ call[r].op = "get_park") =>
      LET found == {p \in parks : p.id = call[r].park_id}
      IN /\ resp[r].status \in {200, 404, 500}
         /\ resp[r].status = 404 <=> found = {}
         /\ resp[r].status = 200 =>
              /\ Len(resp[r].parks) = 1
              /\ resp[r].parks[1].id = call[r].park_id
         /\ (\E p \in found : p.activities = None) => resp[r].status = 200

\* C1 witness: get_park answered with the Park of a table of two rows
GetParkFound ==
  \E r \in Clients :
    /\ Ok(r)
    /\ call[r].op = "get_park"
    /\ Cardinality(parks) = 2
    /\ resp[r].parks[1].id = 2

\* C4: get_parks(B) with a biome B given, the empty string included, returns
\* only parks of biome B, and total is both the length of the list and the
\* number of rows of biome B; with no row of biome B it returns the empty
\* list and total 0, not an error.
ListParksByBiome ==
  \A r \in Clients :
    (Done(r) /\ Listing(r) /\ call[r].biome # None) =>
      LET B == call[r].biome[1]
          matching == {p \in parks : p.biome = B}
      IN /\ resp[r].status = 200 =>
              /\ \A k \in 1..Len(resp[r].parks) : resp[r].parks[k].biome = B
              /\ resp[r].total = Len(resp[r].parks)
              /\ resp[r].total = Cardinality(matching)
         /\ matching = {} => resp[r].status = 200 /\ resp[r].parks = << >>

\* C10: get_parks() without a biome returns every row exactly once; every
\* listing and every search result is in ascending order of name; get_biomes
\* returns the biomes of the table, each once, in ascending order.
ListingsOrdered ==
  \A r \in Clients :
    /\ (Ok(r) /\ call[r].op = "get_parks" /\ call[r].biome = None) =>
         /\ Len(resp[r].parks) = Cardinality(parks)
         /\ Ids(resp[r].parks) = {p.id : p \in parks}
    /\ (Ok(r) /\ (Listing(r) \/ call[r].op = "search_parks")) =>
         /\ Cardinality(Ids(resp[r].parks)) = Len(resp[r].parks)
         /\ \A k \in 1..(Len(resp[r].parks) - 1) :
              StrLeq(resp[r].parks[k].name, resp[r].parks[k + 1].name)
    /\ (Done(r) /\ call[r].op = "get_biomes") =>
         /\ resp[r].status = 200
         /\ {resp[r].biomes[k] : k \in 1..Len(resp[r].biomes)} = {p.biome : p \in parks}
         /\ \A k \in 1..(Len(resp[r].biomes) - 1) :
              StrLess(resp[r].biomes[k], resp[r].biomes[k + 1])

\* C10 witness: an unfiltered listing of two parks whose names differ and
\* whose ids are in the other order
ListedTwoNames ==
  \E r \in Clients :
    /\ Ok(r)
    /\ call[r].op = "get_parks"
    /\ call[r].biome = None
    /\ Len(resp[r].parks) = 2
    /\ resp[r].parks[1].name # resp[r].parks[2].name
    /\ resp[r].parks[1].id > resp[r].parks[2].id

\* C5: search_parks(q) with q shorter than 2 characters ends at once with
\* 400, having opened no connection and executed no statement; with q of 2
\* characters or more it is never answered 400, and its 200 response echoes
\* q and has total equal to the number of results.
SearchValidation ==
  \A r \in Clients :
    (call[r].op = "search_parks") =>
      IF Len(call[r].q) < 2
      THEN /\ Done(r)
           /\ resp[r].status = 400
           /\ conn[r] = 0
           /\ nqueries[r] = 0
      ELSE /\ resp[r].status # 400
           /\ Done(r) => resp[r].status = 200
           /\ Ok(r) => /\ resp[r].query = Some(call[r].q)
                       /\ resp[r].total = Len(resp[r].parks)

\* C5 witness: a search string of one character was rejected
SearchRejected ==
  \E r \in Clients :
    /\ Done(r)
    /\ call[r].op = "search_parks"
    /\ Len(call[r].q) = 1
    /\ resp[r].status = 400
    /\ parks # {}

\* C3: every park that search_parks(q) returns has q as a literal substring
\* of its name or of its summary, compared case-insensitively, also when q
\* holds % or _.
SearchLiteral ==
  \A r \in Clients :
    (Ok(r) /\ call[r].op = "search_parks") =>
      \A k \in 1..Len(resp[r].parks) :
        \/ ContainsIgnoreCase(resp[r].parks[k].name, call[r].q)
        \/ ContainsIgnoreCase(resp[r].parks[k].summary, call[r].q)

\* the url of the image of smallest id among the images S
FirstUrl(S) == (CHOOSE i \in S : \A j \in S : i.id <= j.id).url

\* C2: the satellite field of every returned Park is the url of the
\* satellite image of that park with the smallest id, and is absent exactly
\* when the park has no satellite image.
SatelliteSmallestKey ==
  \A r \in Clients :
    Ok(r) =>
      \A k \in 1..Len(resp[r].parks) :
        LET S == {i \in images : i.park_id = resp[r].parks[k].id /\ i.type = "satellite"}
        IN resp[r].parks[k].satellite = IF S = {} THEN None ELSE Some(FirstUrl(S))

\* C6: the gallery of every returned Park holds exactly the photo images of
\* that park, each once, in ascending order of id; a park id with no photo
\* image, with or without a park row, has the empty gallery.
GalleryPhotosInOrder ==
  /\ \A r \in Clients :
       Ok(r) =>
         \A k \in 1..Len(resp[r].parks) :
           LET g == resp[r].parks[k].gallery
               P == {i \in images : i.park_id = resp[r].parks[k].id /\ i.type = "photo"}
           IN /\ Len(g) = Cardinality(P)
              /\ {g[j] : j \in 1..Len(g)} = {[url |-> i.url, blur |-> i.blur_hash] : i \in P}
              /\ \A j \in 1..(Len(g) - 1) : g[j].url[2] < g[j + 1].url[2]
  /\ \A park_id \in ParkIds \cup {AbsentId} :
       (\A i \in images : ~(i.park_id = park_id /\ i.type = "photo")) =>
         get_park_images(park_id, "photo") = << >>

\* C6 witness: a returned Park with two photos in its gallery whose park
\* also has a satellite image, next to an image of another park
GalleryOfTwo ==
  \E r \in Clients :
    /\ Ok(r)
    /\ call[r].op = "get_park"
    /\ Len(resp[r].parks[1].gallery) = 2
    /\ resp[r].parks[1].gallery[1].url = <<"url", 1>>
    /\ resp[r].parks[1].gallery[2].url = <<"url", 3>>
    /\ \E i \in images : i.park_id = resp[r].parks[1].id /\ i.type = "satellite"

\* the stored activities value of the park row with the given id
Stored(park_id) == (CHOOSE p \in parks : p.id = park_id).activities

\* C7: the activities field of every returned Park is a sequence and never
\* null: the empty sequence for a stored NULL, empty text or empty list, the
\* stored list in its order for a stored list of strings; a row whose text
\* is anything else is never returned.
ActivitiesDecoded ==
  \A r \in Clients :
    Ok(r) =>
      \A k \in 1..Len(resp[r].parks) :
        LET stored == Stored(resp[r].parks[k].id)
            activities == resp[r].parks[k].activities
        IN /\ activities # None
           /\ stored \in {None, Some(""), Some("[]")} => activities = Some(<< >>)
           /\ stored = Some(HikingCamping) => activities = Some(<<"hiking", "camping">>)
           /\ stored = Some(CampingHiking) => activities = Some(<<"camping", "hiking">>)
           /\ stored \in {None, Some(""), Some("[]"), Some(HikingCamping), Some(CampingHiking)}

\* the rows a collection request is to return
Matched(r) ==
  IF call[r].op = "search_parks"
  THEN {p \in parks : \/ ContainsIgnoreCase(p.name, call[r].q)
                      \/ ContainsIgnoreCase(p.summary, call[r].q)}
  ELSE IF call[r].biome = None THEN parks
  ELSE {p \in parks : p.biome = call[r].biome[1]}

\* stored texts on which json.loads or the Park constructor raises
Undecodable == {Some("\"hiking\""), Some("{\"hiking\":1}"), Some("[\"hiking\",")}

\* C8: a collection request (get_parks, get_parks_by_biome, search_parks)
\* whose matched rows include one that fails to assemble ends in an error
\* that carries no parks; a 200 response holds every matched row, none
\* skipped, and none with activities defaulted to the empty list.
NoPartialResult ==
  \A r \in Clients :
    (Done(r) /\ (Listing(r) \/ call[r].op = "search_parks") /\ resp[r].status # 400) =>
      /\ (\E p \in Matched(r) : p.activities \in Undecodable) =>
           /\ resp[r].status = 500
           /\ resp[r].parks = << >>
           /\ resp[r].total = 0
      /\ resp[r].status = 200 =>
           /\ Ids(resp[r].parks) = {p.id : p \in Matched(r)}
           /\ \A k \in 1..Len(resp[r].parks) :
                resp[r].parks[k].activities = Some(<< >>) =>
                  Stored(resp[r].parks[k].id) \in {None, Some(""), Some("[]")}

\* C8 witness: a listing that had assembled one park when the next row
\* failed, and ended in an error
FailedAfterOne ==
  \E r \in Clients :
    /\ Done(r)
    /\ Listing(r)
    /\ resp[r].status = 500
    /\ Len(acc[r]) = 1
    /\ resp[r].parks = << >>

InFlight == {r \in Clients : pc[r] \in {"query", "assemble", "exit"}}

\* C9: the open connections are exactly those of the requests inside their
\* async with block, one connection each and no two requests the same one;
\* a request that has ended, by a response or by any error, holds none, so
\* with every request ended no connection is open.
ConnectionsReleased ==
  /\ open = {conn[r] : r \in InFlight}
  /\ \A r, s \in InFlight : conn[r] = conn[s] => r = s
  /\ \A r \in InFlight : conn[r] # 0
  /\ (\A r \in Clients : pc[r] \in {"idle", "done"}) => open = {}

\* C9 witness: one request ended by an error raised while it assembled its
\* second row, with the request of another client still holding its own
\* connection
ReleasedOnErrors ==
  \E r, s \in Clients :
    /\ r # s
    /\ Done(r)
    /\ resp[r].status = 500
    /\ Len(acc[r]) = 1
    /\ conn[r] # 0
    /\ pc[s] = "assemble"
    /\ conn[s] \in open

=============================================================================
